---- MODULE Spec2Model ----
(***************************************************************************)
(* The scoped IoC container of src/src/ioc.py: a tree of Scope nodes, the  *)
(* ThreadData pointers root_scope / current_scope, the four command        *)
(* objects, the resolver IoC.resolve and the context-manager protocol of   *)
(* Scope (__enter__ / __exit__); and the MacroCommand of src/src/command.py *)
(* over the fuel / movement commands.                                      *)
(*                                                                         *)
(* A scope is identified by its allocation index (object identity); the    *)
(* code's Scope.__eq__ compares names only, which the model keeps apart    *)
(* from identity.  Python's None is 0 where a scope reference is expected. *)
(***************************************************************************)
EXTENDS Integers, Sequences, FiniteSets, TLC

(* ------------------------------ bounds --------------------------------- *)

\* Scope objects allocated, the root included, per specification.
MaxScopes == 3
WithScopes == 2
NestScopes == 4
UnitScopes == 2
TreeScopes == 3
LifeScopes == 3
WalkScopes == 2
ReenterScopes == 3
DeferScopes == 3
\* Nesting depth of the `with` blocks of one execution unit.
WithDepth == 2
NestDepth == 3
UnitDepth == 1
TreeDepth == 1
LifeDepth == 1
ReenterDepth == 3
\* Sub-commands of one MacroCommand.
MaxCommands == 3

(* ------------------------------ inputs --------------------------------- *)

\* Execution units (threads) of the program.
Units == {1, 2}
\* The one unit of the single-threaded specification.
MainUnits == {1}

\* Scope names a caller gives to scopes.create explicitly.
ExplicitNames == {"a"}
\* Tokens uuid.uuid4() can return (only ever compared for equality).
UuidPool == {"u1"}
\* Names a caller looks scopes up by.
Names == {"root"} \cup ExplicitNames \cup UuidPool

\* Keys callers register, besides the built-in ones.
UserKeys == {"x"}
\* Keys callers resolve, besides the built-in ones.
ResolvedKeys == UserKeys \cup {"unknownkey"}
\* Factories callers register: plain functions (always truthy objects).
Factories == {"f1", "f2"}
\* Argument tuples passed to user factories.
UserArgs == {<< >>, <<"arg1">>}

None == 0

VARIABLES
    scopes,                  \* heap of Scope objects, by allocation index
    DEFAULT_SCOPE_REGISTRY,  \* the module-level dict every root aliases
    root_scope,              \* ThreadData.root_scope    (class attribute)
    current_scope,           \* ThreadData.current_scope (class attribute)
    ret,                     \* per unit: what its last call returned or raised
    withs,                   \* per unit: stack of open `with` blocks
    last,                    \* the call made last: by whom, which, its inputs
    held,                    \* per unit: the command object it keeps in a variable
    Scope__iter_out,         \* the attribute __iter_out of the scopes that have it
    walk,                    \* per unit: its position in the loop of IoC.resolve
    macro,                   \* the MacroCommand executed last and its outcome
    body                     \* the object the fuel / movement commands act on

vars == <<scopes, DEFAULT_SCOPE_REGISTRY, root_scope, current_scope, ret, withs,
          last, held, Scope__iter_out, walk, macro, body>>

(* --------------------------- the registry ------------------------------ *)

BuiltinKeys ==
    {"ioc.register", "scopes.create", "scopes.set", "scopes.find", "scopes.current"}

\* DEFAULT_SCOPE_REGISTRY as the module defines it: key -> its lambda.
DefaultRegistry == [k \in BuiltinKeys |-> k]

EmptyDict == [k \in {} |-> ""]

\* The dict object behind scope s: the roots alias DEFAULT_SCOPE_REGISTRY
\* (Scope.with_registry stores the reference, it does not copy).
RegistryOf(sc, dflt, s) ==
    IF sc[s].shares_default THEN dflt ELSE sc[s].registry

\* dict.get(key): the stored factory, or "" (None) when the key is absent.
DictGet(d, key) == IF key \in DOMAIN d THEN d[key] ELSE ""

(* ------------------------- values and errors --------------------------- *)

NoneValue == [kind |-> "None"]
ScopeValue(s) == [kind |-> "Scope", scope |-> s]
IoCObject == [kind |-> "IoC"]

IoCRegisterCommand(key, strategy) ==
    [kind |-> "IoCRegisterCommand", key |-> key, strategy |-> strategy]
FindScopeCommand(target_name) ==
    [kind |-> "FindScopeCommand", target_name |-> target_name]
SetCurrentScopeCommand(scope_name) ==
    [kind |-> "SetCurrentScopeCommand", scope_name |-> scope_name]
NewScopeCommand(parent_name, scope_name) ==
    [kind |-> "NewScopeCommand", parent_name |-> parent_name,
     scope_name |-> scope_name]

CommandKinds ==
    {"IoCRegisterCommand", "FindScopeCommand", "SetCurrentScopeCommand",
     "NewScopeCommand"}

KeyError(key) == [kind |-> "KeyError", key |-> key]
ScopeNotFoundException == [kind |-> "ScopeNotFoundException"]
ScopeNotSetException == [kind |-> "ScopeNotSetException"]
AttributeError == [kind |-> "AttributeError"]
IoCNotFoundException(key, args) ==
    [kind |-> "IoCNotFoundException", key |-> key, args |-> args]

ErrorKinds ==
    {"KeyError", "ScopeNotFoundException", "ScopeNotSetException",
     "AttributeError", "IoCNotFoundException"}

\* A call as `last` records it.
Call(u, op, key, args) == [unit |-> u, op |-> op, key |-> key, args |-> args]

\* What calling a user factory with args returns.
FactoryResult(f, args) == [kind |-> "value", factory |-> f, args |-> args]

(* ------------------------------ Scope ---------------------------------- *)

\* Scope(name=..., parent=..., setter_scope=...): children and registry
\* start empty (default_factory).
Scope(name, parent, setter_scope) ==
    [name |-> name, parent |-> parent, setter_scope |-> setter_scope,
     children |-> << >>, registry |-> EmptyDict, shares_default |-> FALSE]

\* Scope(name="root").with_registry(DEFAULT_SCOPE_REGISTRY)
RootScope ==
    [name |-> "root", parent |-> None, setter_scope |-> None,
     children |-> << >>, registry |-> EmptyDict, shares_default |-> TRUE]

\* Scope.__eq__: equality of names, not identity.
ScopeEq(sc, a, b) == sc[a].name = sc[b].name

Allocated(sc) == 1 .. Len(sc)

(* ------------------------- FindScopeCommand ---------------------------- *)

\* The search with pop() for popleft(): the deque used as a stack.
RECURSIVE BfsLifo(_, _, _)
BfsLifo(sc, visit_queue, target_name) ==
    IF Len(visit_queue) = 0
    THEN None
    ELSE LET scope == visit_queue[Len(visit_queue)] IN
         IF sc[scope].name = target_name
         THEN scope
         ELSE BfsLifo(sc, SubSeq(visit_queue, 1, Len(visit_queue) - 1)
                            \o sc[scope].children, target_name)

\* The while loop of FindScopeCommand.execute over the deque visit_queue;
\* None (0) stands for falling out of the loop (ScopeNotFoundException).
RECURSIVE Bfs(_, _, _)
Bfs(sc, visit_queue, target_name) ==
    IF Len(visit_queue) = 0
    THEN None
    ELSE LET scope == Head(visit_queue) IN
         IF sc[scope].name = target_name
         THEN scope
         ELSE Bfs(sc, Tail(visit_queue) \o sc[scope].children, target_name)

FindScope(sc, root, target_name) == Bfs(sc, <<root>>, target_name)

(* ----------------------------- IoC.resolve ----------------------------- *)

\* Walk as a root-to-leaf iteration would have it: the registration
\* farthest from the start scope wins.
RECURSIVE WalkFarthest(_, _, _, _)
WalkFarthest(sc, dflt, iter_out, key) ==
    IF iter_out = None
    THEN ""
    ELSE LET above == WalkFarthest(sc, dflt, sc[iter_out].parent, key) IN
         IF above # ""
         THEN above
         ELSE DictGet(RegistryOf(sc, dflt, iter_out), key)

\* Walk over one flat registry: a key registered in any scope is found.
WalkAnyScope(sc, dflt, iter_out, key) ==
    LET hs == {s \in Allocated(sc) : key \in DOMAIN RegistryOf(sc, dflt, s)}
    IN IF hs = {} THEN ""
       ELSE RegistryOf(sc, dflt, CHOOSE s \in hs : TRUE)[key]

\* Walk that never leaves the start scope: the parents are not consulted.
WalkOwnOnly(sc, dflt, iter_out, key) ==
    IF iter_out = None THEN ""
    ELSE DictGet(RegistryOf(sc, dflt, iter_out), key)

\* for scope in ThreadData.current_scope: the iterator protocol of Scope.
\* __iter__ puts the cursor on the start scope, __next__ yields the cursor
\* and moves it to the parent.  The result is the first truthy
\* registry.get(key) on the way, "" when the iteration stops without one.
RECURSIVE Walk(_, _, _, _)
Walk(sc, dflt, iter_out, key) ==
    IF iter_out = None
    THEN ""
    ELSE LET resolver == DictGet(RegistryOf(sc, dflt, iter_out), key) IN
         IF resolver # ""
         THEN resolver
         ELSE Walk(sc, dflt, sc[iter_out].parent, key)

\* resolver(*args) for the lambdas of DEFAULT_SCOPE_REGISTRY and for user
\* factories.  uuid is what uuid.uuid4() returns in
\* NewScopeCommand.__post_init__ when no scope_name was given.
Invoke(resolver, args, current, uuid) ==
    CASE resolver = "ioc.register" -> IoCRegisterCommand(args[1], args[2])
      [] resolver = "scopes.create" ->
            NewScopeCommand(args[1], IF Len(args) >= 2 THEN args[2] ELSE uuid)
      [] resolver = "scopes.set" -> SetCurrentScopeCommand(args[1])
      [] resolver = "scopes.find" -> FindScopeCommand(args[1])
      [] resolver = "scopes.current" -> ScopeValue(current)
      [] OTHER -> FactoryResult(resolver, args)

ResolveResult(sc, dflt, current, key, args, uuid) ==
    IF current = None
    THEN ScopeNotSetException
    ELSE LET resolver == Walk(sc, dflt, current, key) IN
         IF resolver # ""
         THEN Invoke(resolver, args, current, uuid)
         ELSE IoCNotFoundException(key, args)

(* ------------------------------ inputs --------------------------------- *)

\* ioc.resolve(key, *args) calls whose result is used as a value.
ValueCalls ==
    {<<"scopes.current", << >>>>}
    \cup {<<k, a>> : k \in ResolvedKeys, a \in UserArgs}

\* ioc.resolve(key, *args) calls that yield a command object, with
\* well-formed arguments.
CommandCalls ==
    {<<"ioc.register", <<k, f>>>> : k \in UserKeys, f \in Factories}
    \cup {<<"scopes.create", <<p>>>> : p \in Names}
    \cup {<<"scopes.create", <<p, n>>>> : p \in Names, n \in ExplicitNames}
    \cup {<<"scopes.set", <<n>>>> : n \in Names}
    \cup {<<"scopes.find", <<n>>>> : n \in Names}

\* Names in use: of the scopes, and held by commands not yet executed.
UsedNames ==
    {scopes[s].name : s \in Allocated(scopes)}
    \cup {ret[u].scope_name : u \in {v \in Units : ret[v].kind = "NewScopeCommand"}}
    \cup {held[u].cmd.scope_name :
            u \in {v \in Units : /\ held[v].kind = "held"
                                 /\ held[v].cmd.kind = "NewScopeCommand"}}

\* uuid.uuid4() returns a token equal to no name in use; "" when the call
\* draws none.
UuidChoices(key, args) ==
    IF key = "scopes.create" /\ Len(args) < 2
    THEN UuidPool \ UsedNames
    ELSE {""}

(* --------------------------- MacroCommand ------------------------------ *)

\* core.Vector2D and its __add__.
Vector2D(x, y) == [x |-> x, y |-> y]
VectorAdd(a, b) == Vector2D(a.x + b.x, a.y + b.y)

\* The classes whose instances a MacroCommand is given: the three fuel /
\* movement commands over one body, and test doubles whose execute()
\* returns or raises.
CommandClasses ==
    {"CheckFuelCommand", "MoveCommand", "BurnFuelCommand", "MockReturns",
     "MockRaises"}

Fuels == 0 .. 2
BurnRates == {1}

\* A body that can move and has fuel.
Body(fuel, burn_rate) ==
    [fuel |-> fuel, burn_rate |-> burn_rate, position |-> Vector2D(1, 2),
     velocity |-> Vector2D(1, -1)]

NoBody == [fuel |-> 0]
NoMacro == [status |-> "none"]

SeqsUpTo(S, n) == UNION {[1 .. k -> S] : k \in 0 .. n}

\* command.execute() on body b: what it raises ("" when it returns) and
\* the body it leaves.
SubExecute(command, b) ==
    CASE command = "MoveCommand" ->
            [raised |-> "",
             body |-> [b EXCEPT !.position = VectorAdd(b.position, b.velocity)]]
      [] command = "CheckFuelCommand" ->
            [raised |-> IF b.fuel < b.burn_rate THEN "CommandException" ELSE "",
             body |-> b]
      [] command = "BurnFuelCommand" ->
            [raised |-> "", body |-> [b EXCEPT !.fuel = b.fuel - b.burn_rate]]
      [] command = "MockRaises" -> [raised |-> "Exception", body |-> b]
      [] OTHER -> [raised |-> "", body |-> b]

\* The for loop of MacroCommand.execute from sub-command i on; called
\* lists the sub-commands whose execute() has been called so far.
RECURSIVE RunMacro(_, _, _, _)
RunMacro(commands, i, called, b) ==
    IF i > Len(commands)
    THEN [status |-> "returned", cause |-> "", called |-> called, body |-> b]
    ELSE LET r == SubExecute(commands[i], b) IN
         IF r.raised # ""
         THEN [status |-> "CommandException", cause |-> r.raised,
               called |-> Append(called, i), body |-> r.body]
         ELSE RunMacro(commands, i + 1, Append(called, i), r.body)

\* A macro that undoes the effects of the sub-commands before it fails.
MacroResultRollback(commands, b) ==
    LET r == RunMacro(commands, 1, << >>, b)
    IN IF r.status = "returned" THEN r ELSE [r EXCEPT !.body = b]

\* MacroCommand(commands).execute()
MacroResult(commands, b) == RunMacro(commands, 1, << >>, b)

(* ------------------------------ actions -------------------------------- *)

NoAttribute == [s \in {} |-> None]
IdleWalk == [pc |-> "idle"]

Init ==
    /\ scopes = <<RootScope>>
    /\ DEFAULT_SCOPE_REGISTRY = DefaultRegistry
    /\ root_scope = 1
    /\ current_scope = 1
    /\ ret = [u \in Units |-> IF u \in MainUnits THEN IoCObject ELSE NoneValue]
    /\ withs = [u \in Units |-> << >>]
    /\ last = Call(1, "IoC", "", << >>)
    /\ held = [u \in Units |-> NoneValue]
    /\ Scope__iter_out = NoAttribute
    /\ walk = [u \in Units |-> IdleWalk]
    /\ macro = NoMacro
    /\ body = NoBody

\* IoC(): a new root scope over the shared DEFAULT_SCOPE_REGISTRY; both
\* ThreadData class attributes point at it.
Construct(u, max_scopes) ==
    /\ Len(scopes) < max_scopes
    /\ scopes' = Append(scopes, RootScope)
    /\ root_scope' = Len(scopes) + 1
    /\ current_scope' = Len(scopes) + 1
    /\ ret' = [ret EXCEPT ![u] = IoCObject]
    /\ last' = Call(u, "IoC", "", << >>)
    /\ UNCHANGED <<DEFAULT_SCOPE_REGISTRY, withs>>
    /\ UNCHANGED <<held, Scope__iter_out, walk, macro, body>>

\* v = ioc.resolve(key, *args), the whole call at once.  The cursor the
\* loop leaves behind in Scope.__iter_out is read by no later call (each
\* begins with __iter__, which sets it anew) and is tracked only for the
\* calls taken step by step (ResolveIter / ResolveNext).
Resolve(u, key, args) ==
    /\ \E uuid \in UuidChoices(key, args) :
          ret' = [ret EXCEPT ![u] =
                    ResolveResult(scopes, DEFAULT_SCOPE_REGISTRY, current_scope,
                                  key, args, uuid)]
    /\ last' = Call(u, "resolve", key, args)
    /\ UNCHANGED <<scopes, DEFAULT_SCOPE_REGISTRY, root_scope, current_scope, withs>>
    /\ UNCHANGED <<held, Scope__iter_out, walk, macro, body>>

\* The duplicate check done through the whole chain, as a resolve would.
ChainContains(sc, dflt, active_scope, key) ==
    Walk(sc, dflt, active_scope, key) # ""

\* self.key in active_scope.registry
RegistryContains(sc, dflt, active_scope, key) ==
    key \in DOMAIN RegistryOf(sc, dflt, active_scope)

\* active_scope.registry[self.key] = self.strategy
DictSet(d, key, strategy) ==
    [k \in DOMAIN d \cup {key} |-> IF k = key THEN strategy ELSE d[k]]

\* A registration that replaces the entry of a key already registered.
ExecuteRegisterReplace(u, cmd) ==
    /\ cmd.kind = "IoCRegisterCommand"
    /\ LET active_scope == current_scope
       IN /\ ret' = [ret EXCEPT ![u] = NoneValue]
          /\ IF scopes[active_scope].shares_default
             THEN /\ DEFAULT_SCOPE_REGISTRY' =
                         DictSet(DEFAULT_SCOPE_REGISTRY, cmd.key, cmd.strategy)
                  /\ UNCHANGED scopes
             ELSE /\ scopes' = [scopes EXCEPT ![active_scope].registry =
                                   DictSet(@, cmd.key, cmd.strategy)]
                  /\ UNCHANGED DEFAULT_SCOPE_REGISTRY
    /\ UNCHANGED <<root_scope, current_scope, withs>>
    /\ UNCHANGED <<Scope__iter_out, walk, macro, body>>

\* IoCRegisterCommand.execute()
ExecuteRegister(u, cmd) ==
    /\ cmd.kind = "IoCRegisterCommand"
    /\ LET active_scope == current_scope
       IN IF RegistryContains(scopes, DEFAULT_SCOPE_REGISTRY, active_scope, cmd.key)
          THEN /\ ret' = [ret EXCEPT ![u] = KeyError(cmd.key)]
               /\ UNCHANGED <<scopes, DEFAULT_SCOPE_REGISTRY>>
          ELSE /\ ret' = [ret EXCEPT ![u] = NoneValue]
               /\ IF scopes[active_scope].shares_default
                  THEN /\ DEFAULT_SCOPE_REGISTRY' =
                              DictSet(DEFAULT_SCOPE_REGISTRY, cmd.key, cmd.strategy)
                       /\ UNCHANGED scopes
                  ELSE /\ scopes' = [scopes EXCEPT ![active_scope].registry =
                                        DictSet(@, cmd.key, cmd.strategy)]
                       /\ UNCHANGED DEFAULT_SCOPE_REGISTRY
    /\ UNCHANGED <<root_scope, current_scope, withs>>
    /\ UNCHANGED <<Scope__iter_out, walk, macro, body>>

\* FindScopeCommand.execute()
ExecuteFind(u, cmd) ==
    /\ cmd.kind = "FindScopeCommand"
    /\ LET scope == FindScope(scopes, root_scope, cmd.target_name)
       IN ret' = [ret EXCEPT ![u] =
                    IF scope = None THEN ScopeNotFoundException
                    ELSE ScopeValue(scope)]
    /\ UNCHANGED <<scopes, DEFAULT_SCOPE_REGISTRY, root_scope, current_scope, withs>>
    /\ UNCHANGED <<Scope__iter_out, walk, macro, body>>

\* A set that assigns what the search yields, None included, and fails
\* afterwards.
SetCurrentScopeAssignNone(sc, root, current, scope_name) ==
    LET scope == FindScope(sc, root, scope_name)
    IN [raised |-> scope = None, current_scope |-> scope, scope |-> scope]

\* A set that falls back to the root when the name is not found.
SetCurrentScopeFallback(sc, root, current, scope_name) ==
    LET scope == FindScope(sc, root, scope_name)
    IN IF scope = None
       THEN [raised |-> TRUE, current_scope |-> root, scope |-> None]
       ELSE [raised |-> FALSE, current_scope |-> scope, scope |-> scope]

\* SetCurrentScopeCommand.execute(): the scope the nested find returns
\* becomes current; a failing find propagates before the assignment.
SetCurrentScope(sc, root, current, scope_name) ==
    LET scope == FindScope(sc, root, scope_name)
    IN IF scope = None
       THEN [raised |-> TRUE, current_scope |-> current, scope |-> None]
       ELSE [raised |-> FALSE, current_scope |-> scope, scope |-> scope]

ExecuteSet(u, cmd) ==
    /\ cmd.kind = "SetCurrentScopeCommand"
    /\ LET r == SetCurrentScope(scopes, root_scope, current_scope, cmd.scope_name)
       IN /\ current_scope' = r.current_scope
          /\ ret' = [ret EXCEPT ![u] =
                       IF r.raised THEN ScopeNotFoundException
                       ELSE ScopeValue(r.scope)]
    /\ UNCHANGED <<scopes, DEFAULT_SCOPE_REGISTRY, root_scope, withs>>
    /\ UNCHANGED <<Scope__iter_out, walk, macro, body>>

\* The new scope appended to the children of the active scope, whatever
\* parent was found.
AddChildToActive(sc, parent_scope, scope_name, current) ==
    [Append(sc, Scope(scope_name, parent_scope, current))
        EXCEPT ![current].children = Append(@, Len(sc) + 1)]

\* The new scope with its parent stored as restore target.
AddChildSetterParent(sc, parent_scope, scope_name, current) ==
    [Append(sc, Scope(scope_name, parent_scope, parent_scope))
        EXCEPT ![parent_scope].children = Append(@, Len(sc) + 1)]

\* The heap after NewScopeCommand.execute() found parent_scope: the new
\* Scope is allocated and appended to parent_scope.children.
AddChild(sc, parent_scope, scope_name, current) ==
    [Append(sc, Scope(scope_name, parent_scope, current))
        EXCEPT ![parent_scope].children = Append(@, Len(sc) + 1)]

\* NewScopeCommand.execute()
ExecuteNew(u, cmd, max_scopes) ==
    /\ cmd.kind = "NewScopeCommand"
    /\ LET parent_scope == FindScope(scopes, root_scope, cmd.parent_name)
       IN IF parent_scope = None
          THEN /\ ret' = [ret EXCEPT ![u] = ScopeNotFoundException]
               /\ UNCHANGED scopes
          ELSE /\ Len(scopes) < max_scopes
               /\ scopes' = AddChild(scopes, parent_scope, cmd.scope_name,
                                     current_scope)
               /\ ret' = [ret EXCEPT ![u] = ScopeValue(Len(scopes) + 1)]
    /\ UNCHANGED <<DEFAULT_SCOPE_REGISTRY, root_scope, current_scope, withs>>
    /\ UNCHANGED <<Scope__iter_out, walk, macro, body>>

\* cmd.execute() for the four command classes.
ExecuteCommand(u, cmd, max_scopes) ==
    \/ ExecuteRegister(u, cmd)
    \/ ExecuteFind(u, cmd)
    \/ ExecuteSet(u, cmd)
    \/ ExecuteNew(u, cmd, max_scopes)

\* ret.execute(): the command a previous resolve returned to u.
Execute(u, max_scopes) ==
    /\ ret[u].kind \in CommandKinds
    /\ ExecuteCommand(u, ret[u], max_scopes)
    /\ last' = Call(u, "execute", "", << >>)
    /\ UNCHANGED held

\* ioc.resolve(key, *args).execute(): the idiom of every caller in the
\* repository; nothing runs between the two calls.
ResolveExecute(u, key, args, max_scopes) ==
    \E uuid \in UuidChoices(key, args) :
        LET cmd == ResolveResult(scopes, DEFAULT_SCOPE_REGISTRY, current_scope,
                                 key, args, uuid)
        IN /\ cmd.kind \in CommandKinds
           /\ ExecuteCommand(u, cmd, max_scopes)
           /\ last' = Call(u, "resolve.execute", key, args)
           /\ UNCHANGED held

\* A command object in a variable of the caller; resolved_in remembers the
\* scope that was current when it was resolved.
Held(cmd, resolved_in) == [kind |-> "held", cmd |-> cmd, resolved_in |-> resolved_in]

\* cmd = ioc.resolve(key, *args): the command object is returned and kept,
\* not executed.
ResolveHold(u, key, args) ==
    \E uuid \in UuidChoices(key, args) :
        LET cmd == ResolveResult(scopes, DEFAULT_SCOPE_REGISTRY, current_scope,
                                 key, args, uuid)
        IN /\ cmd.kind \in CommandKinds
           /\ ret' = [ret EXCEPT ![u] = cmd]
           /\ held' = [held EXCEPT ![u] = Held(cmd, current_scope)]
           /\ last' = Call(u, "resolve", key, args)
           /\ UNCHANGED <<scopes, DEFAULT_SCOPE_REGISTRY, root_scope, current_scope,
                          withs, Scope__iter_out, walk, macro, body>>

\* An execute() in which a register command writes to the scope that was
\* current when the command was resolved.
ExecuteHeldWhereResolved(u, max_scopes) ==
    /\ held[u].kind = "held"
    /\ IF held[u].cmd.kind = "IoCRegisterCommand"
       THEN LET cmd == held[u].cmd
                active_scope == held[u].resolved_in
            IN /\ IF RegistryContains(scopes, DEFAULT_SCOPE_REGISTRY, active_scope,
                                      cmd.key)
                  THEN /\ ret' = [ret EXCEPT ![u] = KeyError(cmd.key)]
                       /\ UNCHANGED <<scopes, DEFAULT_SCOPE_REGISTRY>>
                  ELSE /\ ret' = [ret EXCEPT ![u] = NoneValue]
                       /\ IF scopes[active_scope].shares_default
                          THEN /\ DEFAULT_SCOPE_REGISTRY' =
                                      DictSet(DEFAULT_SCOPE_REGISTRY, cmd.key,
                                              cmd.strategy)
                               /\ UNCHANGED scopes
                          ELSE /\ scopes' =
                                      [scopes EXCEPT ![active_scope].registry =
                                          DictSet(@, cmd.key, cmd.strategy)]
                               /\ UNCHANGED DEFAULT_SCOPE_REGISTRY
               /\ UNCHANGED <<root_scope, current_scope, withs, Scope__iter_out,
                              walk, macro, body>>
       ELSE ExecuteCommand(u, held[u].cmd, max_scopes)
    /\ last' = Call(u, "execute", "", << >>)
    /\ UNCHANGED held

\* cmd.execute() on the command kept, whatever was called in between.
ExecuteHeld(u, max_scopes) ==
    /\ held[u].kind = "held"
    /\ ExecuteCommand(u, held[u].cmd, max_scopes)
    /\ last' = Call(u, "execute", "", << >>)
    /\ UNCHANGED held

(* ----------------------- Scope.__enter__ / __exit__ --------------------- *)

\* Scope.__enter__ of scope self: when self != current (by name) the
\* current scope is stored as self.setter_scope and then
\* SetCurrentScopeCommand(self.name) runs; its ScopeNotFoundException
\* propagates after the store.
EnterScope(sc, root, current, self) ==
    IF ~ScopeEq(sc, self, current)
    THEN LET stored == [sc EXCEPT ![self].setter_scope = current]
             r == SetCurrentScope(stored, root, current, stored[self].name)
         IN [scopes |-> stored, current_scope |-> r.current_scope,
             raised |-> IF r.raised THEN "ScopeNotFoundException" ELSE ""]
    ELSE [scopes |-> sc, current_scope |-> current, raised |-> ""]

\* An exit that goes to the parent of the scope left.
ExitScopeToParent(sc, root, current, self) ==
    IF sc[self].parent = None
    THEN [current_scope |-> current, raised |-> "AttributeError"]
    ELSE [current_scope |-> sc[self].parent, raised |-> ""]

\* An exit that resets the current scope to the root.
ExitScopeToRoot(sc, root, current, self) ==
    [current_scope |-> root, raised |-> ""]

\* Scope.__exit__ of scope self: SetCurrentScopeCommand(self.setter_scope.name);
\* a None setter_scope has no name (AttributeError).
ExitScope(sc, root, current, self) ==
    IF sc[self].setter_scope = None
    THEN [current_scope |-> current, raised |-> "AttributeError"]
    ELSE LET r == SetCurrentScope(sc, root, current,
                                  sc[sc[self].setter_scope].name)
         IN [current_scope |-> r.current_scope,
             raised |-> IF r.raised THEN "ScopeNotFoundException" ELSE ""]

\* `with ret:` begins, ret being the scope the unit's last call returned.
\* The block is entered (pushed) only when __enter__ returns; `before`
\* remembers the scope that was current at the entry.
Enter(u, max_depth) ==
    /\ ret[u].kind = "Scope"
    /\ Len(withs[u]) < max_depth
    /\ LET s == ret[u].scope
           r == EnterScope(scopes, root_scope, current_scope, s)
       IN /\ scopes' = r.scopes
          /\ current_scope' = r.current_scope
          /\ ret' = [ret EXCEPT ![u] =
                       IF r.raised = "" THEN ScopeValue(s)
                       ELSE [kind |-> r.raised]]
          /\ withs' = [withs EXCEPT ![u] =
                         IF r.raised = ""
                         THEN Append(@, [scope |-> s, before |-> current_scope])
                         ELSE @]
    /\ last' = Call(u, "enter", "", << >>)
    /\ UNCHANGED <<DEFAULT_SCOPE_REGISTRY, root_scope>>
    /\ UNCHANGED <<held, Scope__iter_out, walk, macro, body>>

\* An exit that also clears the restore target of the scope left.
ExitClearing(u, failed) ==
    /\ Len(withs[u]) > 0
    /\ LET top == withs[u][Len(withs[u])]
           r == ExitScope(scopes, root_scope, current_scope, top.scope)
       IN /\ current_scope' = r.current_scope
          /\ ret' = [ret EXCEPT ![u] =
                       [kind |-> "exit", scope |-> top.scope,
                        before |-> top.before, failed |-> failed,
                        raised |-> r.raised]]
          /\ withs' = [withs EXCEPT ![u] = SubSeq(@, 1, Len(@) - 1)]
          /\ scopes' = [scopes EXCEPT ![top.scope].setter_scope = None]
    /\ last' = Call(u, "exit", "", << >>)
    /\ UNCHANGED <<DEFAULT_SCOPE_REGISTRY, root_scope>>
    /\ UNCHANGED <<held, Scope__iter_out, walk, macro, body>>

\* The innermost `with` block of u ends, normally or (failed) by an
\* exception raised inside it: __exit__ runs either way and the block is
\* left even when __exit__ itself raises.
Exit(u, failed) ==
    /\ Len(withs[u]) > 0
    /\ LET top == withs[u][Len(withs[u])]
           r == ExitScope(scopes, root_scope, current_scope, top.scope)
       IN /\ current_scope' = r.current_scope
          /\ ret' = [ret EXCEPT ![u] =
                       [kind |-> "exit", scope |-> top.scope,
                        before |-> top.before, failed |-> failed,
                        raised |-> r.raised]]
          /\ withs' = [withs EXCEPT ![u] = SubSeq(@, 1, Len(@) - 1)]
    /\ last' = Call(u, "exit", "", << >>)
    /\ UNCHANGED <<scopes, DEFAULT_SCOPE_REGISTRY, root_scope>>
    /\ UNCHANGED <<held, Scope__iter_out, walk, macro, body>>

(* ------------------- IoC.resolve, one loop step at a time --------------- *)

\* ioc.resolve(key, *args) begins: the check of current_scope, then
\* iter(ThreadData.current_scope).  Scope.__iter__ stores the scope in its
\* own attribute __iter_out and returns it: the scope is its own iterator
\* and every loop over it uses the one cursor.
ResolveIter(u, key, args) ==
    /\ walk[u].pc = "idle"
    /\ IF current_scope = None
       THEN /\ ret' = [ret EXCEPT ![u] = ScopeNotSetException]
            /\ last' = Call(u, "walked", key, args)
            /\ UNCHANGED <<Scope__iter_out, walk>>
       ELSE /\ Scope__iter_out' =
                  [s \in DOMAIN Scope__iter_out \cup {current_scope} |->
                      IF s = current_scope THEN current_scope
                      ELSE Scope__iter_out[s]]
            /\ walk' = [walk EXCEPT ![u] =
                          [pc |-> "next", key |-> key, args |-> args,
                           it |-> current_scope]]
            /\ last' = Call(u, "walk", key, args)
            /\ UNCHANGED ret
    /\ UNCHANGED <<scopes, DEFAULT_SCOPE_REGISTRY, root_scope, current_scope,
                   withs, held, macro, body>>

\* One round of the for loop: next(it) reads the cursor of the iterator
\* scope; None stops the loop (IoCNotFoundException); otherwise the cursor
\* moves to the parent and the loop body looks the key up in the scope
\* yielded, returning resolver(*args) when it is there.
ResolveNext(u) ==
    /\ walk[u].pc = "next"
    /\ LET it == walk[u].it
           key == walk[u].key
           args == walk[u].args
           result == Scope__iter_out[it]
       IN IF result = None
          THEN /\ ret' = [ret EXCEPT ![u] = IoCNotFoundException(key, args)]
               /\ walk' = [walk EXCEPT ![u] = IdleWalk]
               /\ last' = Call(u, "walked", key, args)
               /\ UNCHANGED Scope__iter_out
          ELSE /\ Scope__iter_out' =
                     [Scope__iter_out EXCEPT ![it] = scopes[result].parent]
               /\ LET resolver ==
                         DictGet(RegistryOf(scopes, DEFAULT_SCOPE_REGISTRY, result),
                                 key)
                  IN IF resolver # ""
                     THEN /\ ret' = [ret EXCEPT ![u] =
                                       Invoke(resolver, args, current_scope, "")]
                          /\ walk' = [walk EXCEPT ![u] = IdleWalk]
                          /\ last' = Call(u, "walked", key, args)
                     ELSE /\ last' = Call(u, "walk", key, args)
                          /\ UNCHANGED <<ret, walk>>
    /\ UNCHANGED <<scopes, DEFAULT_SCOPE_REGISTRY, root_scope, current_scope,
                   withs, held, macro, body>>

(* ------------------------ MacroCommand.execute -------------------------- *)

\* MacroCommand(commands).execute() over a body b0 the caller has set up.
MacroExecute(commands, b0) ==
    /\ LET r == MacroResult(commands, b0)
       IN /\ macro' = [commands |-> commands, body0 |-> b0, status |-> r.status,
                       cause |-> r.cause, called |-> r.called]
          /\ body' = r.body
    /\ UNCHANGED <<scopes, DEFAULT_SCOPE_REGISTRY, root_scope, current_scope, ret,
                   withs, last, held, Scope__iter_out, walk>>

(* --------------------------- specifications ---------------------------- *)

\* The container operations: one container, constructed once, used by one
\* execution unit through resolve and resolve(...).execute().
Next ==
    \E u \in MainUnits :
        \/ \E c \in ValueCalls : Resolve(u, c[1], c[2])
        \/ \E c \in CommandCalls : ResolveExecute(u, c[1], c[2], MaxScopes)

Spec == Init /\ [][Next]_vars

\* Scoped acquisition: the same unit also uses the scopes it obtains as
\* context managers, in any order and nesting.
WithCalls ==
    {c \in CommandCalls : c[1] # "ioc.register"}

NextWith ==
    \E u \in MainUnits :
        \/ Resolve(u, "scopes.current", << >>)
        \/ \E c \in WithCalls : ResolveExecute(u, c[1], c[2], WithScopes)
        \/ Enter(u, WithDepth)
        \/ \E failed \in BOOLEAN : Exit(u, failed)

SpecWith == Init /\ [][NextWith]_vars

\* Nested scoped acquisition as the callers write it:
\*     with ioc.resolve("scopes.create", <active scope's name>, ...).execute():
\* a scope is created under the active scope and entered at once; the
\* outermost block may instead enter a scope of the tree found by name.
\* Inside the block the current scope is resolved; blocks end innermost
\* first.
NestNames == {"a", "b", "c"}

NestCreateCalls ==
    {<<"scopes.create", <<scopes[current_scope].name>>>>}
    \cup {<<"scopes.create", <<scopes[current_scope].name, n>>>> : n \in NestNames}

NestFindCalls == {<<"scopes.find", <<n>>>> : n \in {"root"} \cup NestNames}

NextNest ==
    \E u \in MainUnits :
        \/ \E c \in NestCreateCalls : ResolveExecute(u, c[1], c[2], NestScopes)
        \/ /\ withs[u] = << >>
           /\ \E c \in NestFindCalls : ResolveExecute(u, c[1], c[2], NestScopes)
        \/ /\ last.unit = u
           /\ last.op = "resolve.execute"
           /\ last.key \in {"scopes.create", "scopes.find"}
           /\ Enter(u, NestDepth)
        \/ Resolve(u, "scopes.current", << >>)
        \/ \E failed \in BOOLEAN : Exit(u, failed)

SpecNest == Init /\ [][NextNest]_vars

\* Every operation that touches the tree or the current scope, in any
\* order: scopes.create, scopes.set, ioc.register, enter and exit.
TreeCalls ==
    {c \in CommandCalls :
        \/ c[1] \in {"scopes.create", "scopes.set"}
        \/ c = <<"ioc.register", <<"x", "f1">>>>}

NextTree ==
    \E u \in MainUnits :
        \/ \E c \in TreeCalls : ResolveExecute(u, c[1], c[2], TreeScopes)
        \/ Enter(u, TreeDepth)
        \/ \E failed \in BOOLEAN : Exit(u, failed)

SpecTree == Init /\ [][NextTree]_vars

\* The life of the module in one execution unit: containers are
\* constructed one after another and used through resolve, execute, enter
\* and exit, with names that exist and names that do not (every scope is
\* created with an explicit name); scopes of an earlier container may still
\* be entered and left.
LifeCalls ==
    {c \in WithCalls : c[1] = "scopes.create" => Len(c[2]) = 2}

NextLife ==
    \E u \in MainUnits :
        \/ Construct(u, LifeScopes)
        \/ \E key \in {"scopes.current", "x"} : Resolve(u, key, << >>)
        \/ \E c \in LifeCalls : ResolveExecute(u, c[1], c[2], LifeScopes)
        \/ Enter(u, LifeDepth)
        \/ \E failed \in BOOLEAN : Exit(u, failed)

SpecLife == Init /\ [][NextLife]_vars

\* Concurrent resolution without a writer: while no resolve is running one
\* unit builds the tree, registers keys and sets the current scope; the
\* resolve calls of the two units then interleave loop step by loop step,
\* and nothing is written while one of them is running.
WalkKeys == {"x", "scopes.current"}

WalkSetupCalls ==
    {<<"scopes.create", <<"root", "a">>>>, <<"scopes.set", <<"a">>>>,
     <<"scopes.set", <<"root">>>>, <<"ioc.register", <<"x", "f1">>>>}

NextWalks ==
    \/ /\ \A u \in Units : walk[u].pc = "idle"
       /\ \E c \in WalkSetupCalls : ResolveExecute(1, c[1], c[2], WalkScopes)
    \/ \E u \in Units :
          \/ \E key \in WalkKeys : ResolveIter(u, key, << >>)
          \/ ResolveNext(u)

SpecWalks == Init /\ [][NextWalks]_vars

\* Blocks over scopes looked up by name, nested in any way, a scope inside
\* its own block included; the current scope changes through enter and
\* exit only (no scopes.set).
ReenterCalls == {c \in WithCalls : c[1] # "scopes.set"}

NextReenter ==
    \E u \in MainUnits :
        \/ Resolve(u, "scopes.current", << >>)
        \/ \E c \in ReenterCalls : ResolveExecute(u, c[1], c[2], ReenterScopes)
        \/ Enter(u, ReenterDepth)
        \/ \E failed \in BOOLEAN : Exit(u, failed)

SpecReenter == Init /\ [][NextReenter]_vars

\* Commands resolved, kept, and executed later, with other commands carried
\* out in between.
DeferCalls ==
    {c \in CommandCalls :
        /\ c[2][1] \in {"root", "a", "x"}
        /\ c[1] = "ioc.register" => c[2][2] = "f1"}

NextDefer ==
    \E u \in MainUnits :
        \/ \E c \in DeferCalls : ResolveHold(u, c[1], c[2])
        \/ ExecuteHeld(u, DeferScopes)
        \/ \E c \in DeferCalls : ResolveExecute(u, c[1], c[2], DeferScopes)

SpecDefer == Init /\ [][NextDefer]_vars

\* Macro commands over every sequence of sub-commands and every body.
NextMacro ==
    \E commands \in SeqsUpTo(CommandClasses, MaxCommands) :
        \E fuel \in Fuels, burn_rate \in BurnRates :
            MacroExecute(commands, Body(fuel, burn_rate))

SpecMacro == Init /\ [][NextMacro]_vars

\* ThreadData.current_scope and ThreadData.root_scope as execution unit u
\* reads them: class attributes, the same for every unit.
ObservedCurrentScope(u) == current_scope
ObservedRootScope(u) == root_scope

\* Two execution units (threads) on the module: each may construct a
\* container and use it.
UnitCalls == {c \in CommandCalls : c[2][1] \in {"root", "a", "x"}}

NextUnits ==
    \E u \in Units :
        \/ Construct(u, UnitScopes)
        \/ Resolve(u, "scopes.current", << >>)
        \/ \E c \in UnitCalls : ResolveExecute(u, c[1], c[2], UnitScopes)
        \/ Enter(u, UnitDepth)
        \/ \E failed \in BOOLEAN : Exit(u, failed)

SpecUnits == Init /\ [][NextUnits]_vars

(* ------------------------ what the claims speak of --------------------- *)

\* The scopes reached from s by following parent references, s included.
RECURSIVE UpClosure(_, _, _)
UpClosure(sc, A, n) ==
    IF n = 0 THEN A
    ELSE UpClosure(sc, A \cup ({sc[x].parent : x \in A} \ {None}), n - 1)

AncestorsOrSelf(sc, s) == UpClosure(sc, {s}, Len(sc))

\* Number of proper ancestors of s.
Depth(sc, s) == Cardinality(AncestorsOrSelf(sc, s)) - 1

\* The scopes on the chain s, s.parent, ..., root whose own registry has key.
Holders(sc, dflt, s, key) ==
    {h \in AncestorsOrSelf(sc, s) : key \in DOMAIN RegistryOf(sc, dflt, h)}

\* The first of them on the chain: the deepest one.
Nearest(sc, dflt, s, key) ==
    CHOOSE h \in Holders(sc, dflt, s, key) :
        \A g \in Holders(sc, dflt, s, key) : Depth(sc, g) <= Depth(sc, h)

(* ------------------------------- claims -------------------------------- *)

\* C1: resolve(k, args) returns, unchanged, the result of calling with
\* exactly args the factory stored under k in the first scope on the chain
\* current scope, parent, ..., root whose own registry contains k; the
\* registrations of k further up are not consulted (nearest scope wins).
\* scopes.current, held by the root only, yields the current scope.
C1_NearestScopeWins ==
    [][\A u \in MainUnits :
        /\ \A k \in ResolvedKeys, a \in UserArgs :
             (/\ last' = Call(u, "resolve", k, a)
              /\ Holders(scopes, DEFAULT_SCOPE_REGISTRY, current_scope, k) # {})
             => LET h == Nearest(scopes, DEFAULT_SCOPE_REGISTRY, current_scope, k)
                IN ret'[u] =
                     [kind |-> "value",
                      factory |-> RegistryOf(scopes, DEFAULT_SCOPE_REGISTRY, h)[k],
                      args |-> a]
        /\ last' = Call(u, "resolve", "scopes.current", << >>)
             => ret'[u] = ScopeValue(current_scope)
      ]_vars

\* C1 witness: a resolve returned the current scope's factory for x, called
\* with the argument given, while the parent holds another factory for x.
C1_Witness ==
    /\ last = Call(1, "resolve", "x", <<"arg1">>)
    /\ ret[1] = [kind |-> "value", factory |-> "f1", args |-> <<"arg1">>]
    /\ scopes[current_scope].parent # None
    /\ "x" \in DOMAIN scopes[current_scope].registry
    /\ DictGet(RegistryOf(scopes, DEFAULT_SCOPE_REGISTRY,
                          scopes[current_scope].parent), "x") = "f2"

\* C2: for a key in the registry of no scope on the chain from the current
\* scope to the root, resolve fails with IoCNotFoundException naming the
\* key and the arguments, whatever the arguments, and leaves the tree,
\* every registry and current_scope unchanged.
C2_UnresolvedKey ==
    [][\A u \in MainUnits : \A k \in ResolvedKeys, a \in UserArgs :
        (/\ last' = Call(u, "resolve", k, a)
         /\ Holders(scopes, DEFAULT_SCOPE_REGISTRY, current_scope, k) = {})
        => /\ ret'[u] = [kind |-> "IoCNotFoundException", key |-> k, args |-> a]
           /\ scopes' = scopes
           /\ DEFAULT_SCOPE_REGISTRY' = DEFAULT_SCOPE_REGISTRY
           /\ root_scope' = root_scope
           /\ current_scope' = current_scope
      ]_vars

\* C2 witness: resolve of x failed at a scope whose chain has no x, while
\* a scope off the chain has x registered.
C2_Witness ==
    /\ last = Call(1, "resolve", "x", <<"arg1">>)
    /\ ret[1] = IoCNotFoundException("x", <<"arg1">>)
    /\ \E s \in Allocated(scopes) :
          /\ s \notin AncestorsOrSelf(scopes, current_scope)
          /\ "x" \in DOMAIN RegistryOf(scopes, DEFAULT_SCOPE_REGISTRY, s)

\* The registry of every scope, as a caller reads it.
Registries(sc, dflt) == [s \in Allocated(sc) |-> RegistryOf(sc, dflt, s)]

\* C3: ioc.register of key k fails with KeyError (DuplicateKey) exactly
\* when k is in the own registry of the scope current at execute(); a
\* registration in an ancestor or descendant never makes it fail.  On
\* failure every registry is unchanged (the first factory stays); on
\* success only the current scope's registry changes, gaining k -> factory.
C3_RegisterOwnScopeOnly ==
    [][\A u \in MainUnits : \A k \in UserKeys, f \in Factories :
        last' = Call(u, "resolve.execute", "ioc.register", <<k, f>>)
        => LET own == RegistryOf(scopes, DEFAULT_SCOPE_REGISTRY, current_scope)
               after == Registries(scopes', DEFAULT_SCOPE_REGISTRY')
           IN /\ Len(scopes') = Len(scopes)
              /\ current_scope' = current_scope
              /\ IF k \in DOMAIN own
                 THEN /\ ret'[u] = [kind |-> "KeyError", key |-> k]
                      /\ after = Registries(scopes, DEFAULT_SCOPE_REGISTRY)
                 ELSE /\ ret'[u] = [kind |-> "None"]
                      /\ DOMAIN after[current_scope] = DOMAIN own \cup {k}
                      /\ after[current_scope][k] = f
                      /\ \A j \in DOMAIN own : after[current_scope][j] = own[j]
                      /\ \A s \in Allocated(scopes) \ {current_scope} :
                            after[s] = RegistryOf(scopes, DEFAULT_SCOPE_REGISTRY, s)
      ]_vars

\* C3 witness: a second registration of x in a child scope failed and the
\* first factory is still there, while the root holds x as well.
C3_Witness ==
    /\ last = Call(1, "resolve.execute", "ioc.register", <<"x", "f2">>)
    /\ ret[1] = KeyError("x")
    /\ current_scope # root_scope
    /\ DictGet(scopes[current_scope].registry, "x") = "f1"
    /\ "x" \in DOMAIN DEFAULT_SCOPE_REGISTRY

\* The scopes whose own registry has key.
AllHolders(sc, dflt, key) ==
    {s \in Allocated(sc) : key \in DOMAIN RegistryOf(sc, dflt, s)}

\* C4: a key registered in one scope C only resolves from C and from the
\* descendants of C, and fails with IoCNotFoundException from C's parent
\* and from every scope whose chain to the root does not contain C.
C4_NoUpwardLeak ==
    [][\A u \in MainUnits : \A k \in UserKeys, a \in UserArgs :
        last' = Call(u, "resolve", k, a)
        => \A C \in Allocated(scopes) :
              AllHolders(scopes, DEFAULT_SCOPE_REGISTRY, k) = {C}
              => IF C \in AncestorsOrSelf(scopes, current_scope)
                 THEN /\ ret'[u].kind = "value"
                      /\ ret'[u].factory =
                            RegistryOf(scopes, DEFAULT_SCOPE_REGISTRY, C)[k]
                 ELSE ret'[u].kind = "IoCNotFoundException"
      ]_vars

\* C4 witness: x is registered in a child only and resolve of x just failed
\* at that child's parent.
C4_Witness ==
    /\ last = Call(1, "resolve", "x", << >>)
    /\ ret[1].kind = "IoCNotFoundException"
    /\ \E C \in Allocated(scopes) :
          /\ AllHolders(scopes, DEFAULT_SCOPE_REGISTRY, "x") = {C}
          /\ scopes[C].parent = current_scope

\* The scopes of the tree rooted at root.
InTree(sc, root) == {s \in Allocated(sc) : root \in AncestorsOrSelf(sc, s)}

\* The position of s in the tree: the child indexes from the root down to s.
RECURSIVE PathOf(_, _)
PathOf(sc, s) ==
    IF sc[s].parent = None
    THEN << >>
    ELSE LET siblings == sc[sc[s].parent].children
         IN Append(PathOf(sc, sc[s].parent),
                   CHOOSE i \in 1 .. Len(siblings) : siblings[i] = s)

\* Breadth-first order with children in insertion order: shallower first,
\* and within a level by the positions from the root.
BfsBefore(p, q) ==
    \/ Len(p) < Len(q)
    \/ /\ Len(p) = Len(q)
       /\ \E i \in 1 .. Len(p) :
             /\ p[i] < q[i]
             /\ \A j \in 1 .. (i - 1) : p[j] = q[j]

\* C7: scopes.find(name).execute() returns a scope of that name whenever
\* the tree under root_scope has one, at any depth, and among several the
\* first in breadth-first order with children in insertion order; with no
\* such scope it fails with ScopeNotFoundException.  The tree, the
\* registries and current_scope are unchanged either way.
C7_FindBreadthFirst ==
    [][\A u \in MainUnits : \A n \in Names :
        last' = Call(u, "resolve.execute", "scopes.find", <<n>>)
        => LET named == {s \in InTree(scopes, root_scope) : scopes[s].name = n}
           IN /\ named # {}
                 => /\ ret'[u].kind = "Scope"
                    /\ ret'[u].scope \in named
                    /\ \A s \in named \ {ret'[u].scope} :
                          BfsBefore(PathOf(scopes, ret'[u].scope),
                                    PathOf(scopes, s))
              /\ named = {} => ret'[u] = [kind |-> "ScopeNotFoundException"]
              /\ scopes' = scopes
              /\ DEFAULT_SCOPE_REGISTRY' = DEFAULT_SCOPE_REGISTRY
              /\ root_scope' = root_scope
              /\ current_scope' = current_scope
      ]_vars

\* C7 witness: a find returned one of two scopes of the same name, a
\* non-root one.
C7_Witness ==
    /\ last.op = "resolve.execute"
    /\ last.key = "scopes.find"
    /\ ret[1].kind = "Scope"
    /\ ret[1].scope # root_scope
    /\ \E s \in Allocated(scopes) \ {ret[1].scope} :
          scopes[s].name = scopes[ret[1].scope].name

\* C8: scopes.set(name).execute() makes the scope that scopes.find returns
\* for name current and returns it; with no scope of that name it fails
\* with ScopeNotFoundException and current_scope keeps its value.  The tree
\* and all registries are unchanged either way.
C8_SetCurrent ==
    [][\A u \in MainUnits : \A n \in Names :
        last' = Call(u, "resolve.execute", "scopes.set", <<n>>)
        => LET named == {s \in InTree(scopes, root_scope) : scopes[s].name = n}
               found == FindScope(scopes, root_scope, n)
           IN /\ named # {}
                 => /\ found \in named
                    /\ current_scope' = found
                    /\ ret'[u] = [kind |-> "Scope", scope |-> found]
              /\ named = {}
                 => /\ ret'[u] = [kind |-> "ScopeNotFoundException"]
                    /\ current_scope' = current_scope
              /\ scopes' = scopes
              /\ DEFAULT_SCOPE_REGISTRY' = DEFAULT_SCOPE_REGISTRY
              /\ root_scope' = root_scope
      ]_vars

\* C8 witness: a set of an unknown name failed while a non-root scope was
\* current, and that scope is still current.
C8_Witness ==
    /\ last.op = "resolve.execute"
    /\ last.key = "scopes.set"
    /\ ret[1] = ScopeNotFoundException
    /\ current_scope # root_scope

C10_PerUnitPointers ==
    [][\A u \in Units : \A v \in Units \ {u} :
        (last'.unit = u /\ last'.op \in {"IoC", "resolve.execute", "enter", "exit"})
        => /\ ObservedCurrentScope(v)' = ObservedCurrentScope(v)
           /\ ObservedRootScope(v)' = ObservedRootScope(v)
      ]_vars

\* C11 as the specification words it: IoC() leaves root_scope and
\* current_scope on one fresh scope named "root", without parent or
\* children, whose registry holds exactly the five built-in keys.
C11_CleanContainer ==
    [][\A u \in Units :
        (last' = Call(u, "IoC", "", << >>) /\ Len(scopes') = Len(scopes) + 1)
        => LET new == Len(scopes) + 1
           IN /\ root_scope' = new
              /\ current_scope' = new
              /\ scopes'[new].name = "root"
              /\ scopes'[new].parent = None
              /\ scopes'[new].children = << >>
              /\ DOMAIN RegistryOf(scopes', DEFAULT_SCOPE_REGISTRY', new)
                   = BuiltinKeys
      ]_vars

\* The body after the effects of the first k sub-commands, each applied once
\* and in sequence order.
RECURSIVE EffectsOf(_, _, _)
EffectsOf(commands, k, b0) ==
    IF k = 0 THEN b0
    ELSE SubExecute(commands[k], EffectsOf(commands, k - 1, b0)).body

\* The sub-commands that fail when everything before them has taken effect.
Failing(commands, b0) ==
    {i \in 1 .. Len(commands) :
        SubExecute(commands[i], EffectsOf(commands, i - 1, b0)).raised # ""}

\* C12: a macro command calls execute() of its sub-commands in sequence
\* order; with none failing each is called exactly once and the macro
\* returns; with ci the first that fails exactly c1..ci have been called,
\* the macro fails with CommandException carrying what ci raised, and the
\* effects of c1..c(i-1) stay.
C12_MacroStopsAtFirstFailure ==
    macro.status # "none" =>
        LET cs == macro.commands
            F == Failing(cs, macro.body0)
        IN IF F = {}
           THEN /\ macro.status = "returned"
                /\ macro.called = [j \in 1 .. Len(cs) |-> j]
                /\ body = EffectsOf(cs, Len(cs), macro.body0)
           ELSE LET i == CHOOSE f \in F : \A g \in F : f <= g
                IN /\ macro.status = "CommandException"
                   /\ macro.called = [j \in 1 .. i |-> j]
                   /\ body = EffectsOf(cs, i - 1, macro.body0)
                   /\ macro.cause =
                        SubExecute(cs[i], EffectsOf(cs, i - 1, macro.body0)).raised

\* C12 witness: the second of three sub-commands failed after the first
\* had changed the body; the third was never called and the change stays.
C12_Witness ==
    /\ macro.status = "CommandException"
    /\ Len(macro.commands) = 3
    /\ macro.called = <<1, 2>>
    /\ body # macro.body0
    /\ body = SubExecute(macro.commands[1], macro.body0).body

\* The places (p, i) where scope s stands in a children list.
PlacesOf(sc, s) ==
    {pi \in Allocated(sc) \X (1 .. Len(sc)) :
        /\ pi[2] <= Len(sc[pi[1]].children)
        /\ sc[pi[1]].children[pi[2]] = s}

\* The scopes reached from s by one or more parent references.
ProperAncestors(sc, s) ==
    IF sc[s].parent = None THEN {}
    ELSE AncestorsOrSelf(sc, sc[s].parent)

\* C13: the scope graph is a rooted tree: the root has no parent, every
\* other scope stands in exactly one children list and exactly once, s is
\* in p.children exactly when s.parent is p, and the parent references lead
\* from every scope to the root without a cycle.
C13_RootedTree ==
    /\ scopes[root_scope].parent = None
    /\ \A s \in Allocated(scopes) \ {root_scope} :
          Cardinality(PlacesOf(scopes, s)) = 1
    /\ \A s \in Allocated(scopes) : \A p \in Allocated(scopes) :
          (\E pi \in PlacesOf(scopes, s) : pi[1] = p) <=> (scopes[s].parent = p)
    /\ \A s \in Allocated(scopes) :
          /\ root_scope \in AncestorsOrSelf(scopes, s)
          /\ s \notin ProperAncestors(scopes, s)

\* C13 witness: a tree of three levels in which keys were registered and a
\* block has been entered and left.
C13_Witness ==
    /\ last = Call(1, "exit", "", << >>)
    /\ ret[1].raised = ""
    /\ \E s \in Allocated(scopes) :
          /\ Depth(scopes, s) = 2
          /\ "x" \in DOMAIN RegistryOf(scopes, DEFAULT_SCOPE_REGISTRY, s)

\* C14: once a container is constructed current_scope is never None and is
\* a scope of the tree under root_scope, whatever resolve, execute, enter
\* and exit calls succeed or fail; no resolve raises ScopeNotSetException.
C14_CurrentScopeSet ==
    /\ current_scope # None
    /\ current_scope \in InTree(scopes, root_scope)
    /\ \A u \in MainUnits : ret[u].kind # "ScopeNotSetException"

\* C14 witness: a second container exists, and the exit of a block over a
\* scope of the first one has just failed.
C14_Witness ==
    /\ last = Call(1, "exit", "", << >>)
    /\ ret[1].raised # ""
    /\ ret[1].scope \notin InTree(scopes, root_scope)
    /\ current_scope \in InTree(scopes, root_scope)

\* C15 as the specification words it: with no writer during the calls, a
\* resolve that runs concurrently with another returns what it returns when
\* run alone: the result of the nearest registration of its key on the
\* chain from the current scope to the root, or IoCNotFoundException.
C15_ConcurrentWalks ==
    [][\A u \in Units :
        (last'.unit = u /\ last'.op = "walked")
        => ret'[u] = ResolveResult(scopes, DEFAULT_SCOPE_REGISTRY, current_scope,
                                   last'.key, last'.args, "")
      ]_vars

\* C16 as the specification words it: entering a scope S that is the
\* current scope changes neither current_scope nor S's restore target, and
\* the exit of that block makes S's stored restore target the current
\* scope.
C16_EnterCurrentScope ==
    [][\A u \in MainUnits :
        /\ (last' = Call(u, "enter", "", << >>) /\ ret[u].kind = "Scope"
              /\ Len(withs'[u]) = Len(withs[u]) + 1
              /\ ret[u].scope = current_scope)
           => /\ current_scope' = current_scope
              /\ scopes'[ret[u].scope].setter_scope
                   = scopes[ret[u].scope].setter_scope
        /\ (last' = Call(u, "exit", "", << >>) /\ Len(withs[u]) > 0
              /\ Len(withs'[u]) = Len(withs[u]) - 1
              /\ withs[u][Len(withs[u])].before = withs[u][Len(withs[u])].scope)
           => LET S == withs[u][Len(withs[u])].scope
              IN /\ ret'[u].raised = ""
                 /\ current_scope' = scopes[S].setter_scope
      ]_vars

\* No two scopes of the tree under root have the same name.
UniqueNames(sc, root) ==
    \A p \in InTree(sc, root) : \A q \in InTree(sc, root) :
        sc[p].name = sc[q].name => p = q

\* C17 as the specification words it: in the nesting enter A, enter B,
\* enter A, exit A, exit B, exit A over two distinct scopes, every exit
\* makes current the scope that was current immediately before the
\* matching entry; the last one the scope current before the first entry.
C17_ReentryStackDiscipline ==
    [][\A u \in MainUnits :
        (last' = Call(u, "exit", "", << >>) /\ Len(withs[u]) > 0
          /\ Len(withs'[u]) = Len(withs[u]) - 1)
        => LET st == withs[u]
               n == Len(st)
           IN (/\ n <= 3
               /\ UniqueNames(scopes, root_scope)
               /\ \A k \in 1 .. n : st[k].before # st[k].scope
               /\ n >= 2 => (st[2].scope # st[1].scope
                             /\ st[2].before = st[1].scope)
               /\ n = 3 => (st[3].scope = st[1].scope
                            /\ st[3].before = st[2].scope))
              => /\ current_scope' = st[n].before
                 /\ ret'[u].raised = ""
      ]_vars

\* C18 as the specification words it: for every scope S of the tree that is
\* not the current scope, right after S is entered current_scope is the
\* node S itself, in every tree scopes.create can build, two scopes of one
\* name included.
C18_EnterMakesCurrent ==
    [][\A u \in MainUnits :
        (last' = Call(u, "enter", "", << >>) /\ ret[u].kind = "Scope"
          /\ ret[u].scope \in InTree(scopes, root_scope)
          /\ ret[u].scope # current_scope)
        => /\ ret'[u] = ScopeValue(ret[u].scope)
           /\ current_scope' = ret[u].scope
      ]_vars

\* C19: resolving ioc.register, scopes.create, scopes.set or scopes.find
\* returns a command object and changes neither the tree, nor a registry,
\* nor current_scope; execute() on the command acts on the current scope
\* and the tree as they are when execute() is called.
C19_DeferredExecution ==
    [][\A u \in MainUnits :
        /\ \A c \in CommandCalls :
              last' = Call(u, "resolve", c[1], c[2])
              => /\ ret'[u].kind \in CommandKinds
                 /\ scopes' = scopes
                 /\ DEFAULT_SCOPE_REGISTRY' = DEFAULT_SCOPE_REGISTRY
                 /\ current_scope' = current_scope
                 /\ root_scope' = root_scope
        /\ (last' = Call(u, "execute", "", << >>) /\ held[u].kind = "held")
           => LET cmd == held[u].cmd
                  own == RegistryOf(scopes, DEFAULT_SCOPE_REGISTRY, current_scope)
                  after == Registries(scopes', DEFAULT_SCOPE_REGISTRY')
              IN /\ cmd.kind = "IoCRegisterCommand" =>
                      /\ Len(scopes') = Len(scopes)
                      /\ current_scope' = current_scope
                      /\ IF cmd.key \in DOMAIN own
                         THEN /\ ret'[u] = KeyError(cmd.key)
                              /\ after = Registries(scopes, DEFAULT_SCOPE_REGISTRY)
                         ELSE /\ ret'[u] = NoneValue
                              /\ after[current_scope] =
                                   DictSet(own, cmd.key, cmd.strategy)
                              /\ \A s \in Allocated(scopes) \ {current_scope} :
                                    after[s] =
                                      RegistryOf(scopes, DEFAULT_SCOPE_REGISTRY, s)
                 /\ cmd.kind = "SetCurrentScopeCommand" =>
                      LET found == FindScope(scopes, root_scope, cmd.scope_name)
                      IN /\ scopes' = scopes
                         /\ IF found = None
                            THEN /\ ret'[u] = ScopeNotFoundException
                                 /\ current_scope' = current_scope
                            ELSE /\ ret'[u] = ScopeValue(found)
                                 /\ current_scope' = found
                 /\ cmd.kind = "FindScopeCommand" =>
                      LET found == FindScope(scopes, root_scope, cmd.target_name)
                      IN /\ scopes' = scopes
                         /\ current_scope' = current_scope
                         /\ ret'[u] = IF found = None THEN ScopeNotFoundException
                                      ELSE ScopeValue(found)
                 /\ cmd.kind = "NewScopeCommand" =>
                      LET parent == FindScope(scopes, root_scope, cmd.parent_name)
                          new == Len(scopes) + 1
                      IN /\ current_scope' = current_scope
                         /\ IF parent = None
                            THEN /\ ret'[u] = ScopeNotFoundException
                                 /\ scopes' = scopes
                            ELSE /\ ret'[u] = ScopeValue(new)
                                 /\ Len(scopes') = new
                                 /\ scopes'[new].name = cmd.scope_name
                                 /\ scopes'[new].parent = parent
                                 /\ scopes'[new].setter_scope = current_scope
                                 /\ scopes'[parent].children =
                                      Append(scopes[parent].children, new)
      ]_vars

\* C19 witness: a register command resolved in one scope was executed after
\* another scope had become current, and the key is in the registry of the
\* scope current at execute(), not in that of the scope current at resolve.
C19_Witness ==
    /\ last = Call(1, "execute", "", << >>)
    /\ held[1].kind = "held"
    /\ held[1].cmd.kind = "IoCRegisterCommand"
    /\ held[1].resolved_in # current_scope
    /\ ret[1] = NoneValue
    /\ held[1].cmd.key \in
         DOMAIN RegistryOf(scopes, DEFAULT_SCOPE_REGISTRY, current_scope)
    /\ held[1].cmd.key \notin
         DOMAIN RegistryOf(scopes, DEFAULT_SCOPE_REGISTRY, held[1].resolved_in)

C21_ExitNeverFails ==
    [][\A u \in MainUnits :
        (last' = Call(u, "exit", "", << >>) /\ Len(withs[u]) > 0
            /\ Len(withs'[u]) = Len(withs[u]) - 1)
        => LET S == withs[u][Len(withs[u])].scope
               target == scopes[S].setter_scope
           IN /\ target # None
              /\ FindScope(scopes, root_scope, scopes[target].name) # None
              /\ ret'[u].raised = ""
              /\ current_scope' =
                   FindScope(scopes, root_scope, scopes[target].name)
      ]_vars

\* C22: registrations are write-once.  No step removes a scope, removes a
\* key from the own registry of a scope or changes the factory a key maps
\* to there, so an entry once made is there in every later state; and a
\* resolve of a key that the current scope has in its own registry invokes
\* the factory stored there, whatever was registered, created or switched
\* before.
C22_WriteOnce ==
    [][/\ \A s \in Allocated(scopes) :
             /\ s \in Allocated(scopes')
             /\ \A k \in DOMAIN RegistryOf(scopes, DEFAULT_SCOPE_REGISTRY, s) :
                   /\ k \in DOMAIN RegistryOf(scopes', DEFAULT_SCOPE_REGISTRY', s)
                   /\ RegistryOf(scopes', DEFAULT_SCOPE_REGISTRY', s)[k] =
                        RegistryOf(scopes, DEFAULT_SCOPE_REGISTRY, s)[k]
       /\ \A u \in MainUnits : \A c \in ValueCalls :
             LET own == RegistryOf(scopes, DEFAULT_SCOPE_REGISTRY, current_scope)
             IN (last' = Call(u, "resolve", c[1], c[2]) /\ c[1] \in DOMAIN own)
                => ret'[u] = Invoke(own[c[1]], c[2], current_scope, "")
      ]_vars

\* C22 witness: x resolved in a scope other than the root gave the result
\* of the factory in that scope's own registry, while the root holds x
\* with another factory and a third scope exists.
C22_Witness ==
    /\ last = Call(1, "resolve", "x", <<"arg1">>)
    /\ ret[1] = FactoryResult("f1", <<"arg1">>)
    /\ current_scope # root_scope
    /\ DictGet(scopes[current_scope].registry, "x") = "f1"
    /\ DictGet(DEFAULT_SCOPE_REGISTRY, "x") = "f2"
    /\ Len(scopes) = 3

====
